---- MODULE Spec2Model ----
(***************************************************************************)
(* Event scheduling core of sst-core: Activity ordering (activity.h),      *)
(* Event delivery information (event.h, event.cc) and the Link state       *)
(* machine (link.cc).  The queue classes (TimeVortex, PollingLinkQueue,    *)
(* InitQueue), the fatal-error sink and the simulation clock are not part  *)
(* of the modelled sources; they are modelled from the specification.      *)
(***************************************************************************)
EXTENDS Integers, Sequences, FiniteSets, TLC

(* ------------------------------ bounds -------------------------------- *)

\* Width in bits of one half of the packed priority_order word (32 in the
\* source); a full word (uint64_t, SimTime_t, Cycle_t) has 2 * HalfBits bits.
HalfBits == 8
\* Largest value of the simulated clock the scheduler advances to.
MaxTime == 1
\* Largest delay a component passes to send.
MaxDelay == 1
\* Largest value of untimed_phase.
MaxPhase == 1
\* Number of Event objects (NullEvents included) ever allocated.
MaxEvents == 2
\* Number of queue objects allocated with new (PollingLinkQueue, InitQueue).
MaxQueues == 2
\* Number of configuration calls made in a run (setAsSyncLink, setPolling,
\* setFunctor, setLatency).
MaxConfigCalls == 2
\* Number of finalizeConfiguration and prepareForComplete calls made in a run.
MaxModeCalls == 2
\* Number of addSendLatency and addRecvLatency calls made in a run.
MaxLatencyCalls == 2
\* Depth of nested calls followed before a call chain is given up as endless.
MaxCallDepth == 3
\* Width in bits of the model's id_counter, which stands for a uint64_t.
IdBits == 3

Half == 2 ^ HalfBits
Word == Half * Half

(* --------------------------- program constants ------------------------ *)

CLOCKPRIORITY == 40
EVENTPRIORITY == 50

\* nullptr, and the zero delivery_info word.
NULL == 0

Links == {1, 2}
\* The handler object the component at link l makes for it.
HandlerOf(l) == l
\* The handler objects the components make: two for each link.
FunctorIds == 1 .. (2 * Cardinality(Links))
FunctorsOf(l) == {HandlerOf(l), HandlerOf(l) + Cardinality(Links)}
\* What a component passes as the event of a send call: nullptr, or a new
\* Event it has just made.
NULLEVENT == "nullptr"
FRESH == "new Event"
EventInputs == {NULLEVENT, FRESH}
EventIds == 1 .. MaxEvents

\* Queue objects: the rank's TimeVortex, the sync manager's staging queue,
\* and the queues allocated with new.
TimeVortexId == 1
SyncQueueId == 2
QueueIds == 1 .. (2 + MaxQueues)

Delays == 0 .. MaxDelay
\* Value passed to setLatency: the largest Cycle_t.
LatencyInputs == {Word - 1}

(* ------------------------------ Activity ------------------------------ *)

\* Activity::Activity(): all three ordering fields start at zero.
Activity == [delivery_time |-> 0, priority_order |-> 0, queue_order |-> 0]

\* Variant of less that skips the priority_order comparison.
less_noP(T, P, Q, lhs, rhs) ==
    IF T /\ lhs.delivery_time # rhs.delivery_time
    THEN lhs.delivery_time < rhs.delivery_time
    ELSE Q /\ lhs.queue_order < rhs.queue_order

\* Activity::less<T,P,Q>::operator()
less(T, P, Q, lhs, rhs) ==
    IF T /\ lhs.delivery_time # rhs.delivery_time
    THEN lhs.delivery_time < rhs.delivery_time
    ELSE IF P /\ lhs.priority_order # rhs.priority_order
         THEN lhs.priority_order < rhs.priority_order
         ELSE Q /\ lhs.queue_order < rhs.queue_order

\* Activity::greater<T,P,Q>::operator()
greater(T, P, Q, lhs, rhs) ==
    IF T /\ lhs.delivery_time # rhs.delivery_time
    THEN lhs.delivery_time > rhs.delivery_time
    ELSE IF P /\ lhs.priority_order # rhs.priority_order
         THEN lhs.priority_order > rhs.priority_order
         ELSE Q /\ lhs.queue_order > rhs.queue_order

\* Activity::setDeliveryTime
setDeliveryTime(a, time) == [a EXCEPT !.delivery_time = time % Word]

\* Activity::getPriority: (int)(priority_order >> 32)
getPriority(a) ==
    LET hi == a.priority_order \div Half
    IN  IF hi >= Half \div 2 THEN hi - Half ELSE hi

\* Variant of setOrderTag that adds the tag to the low half already there.
setOrderTag_nomask(a, tag) ==
    [a EXCEPT !.priority_order =
        ((a.priority_order \div Half) * Half)
            + (((a.priority_order % Half) + (tag % Half)) % Half)]

\* Activity::setOrderTag: keep the high half, store the tag in the low half.
setOrderTag(a, tag) ==
    [a EXCEPT !.priority_order = ((a.priority_order \div Half) * Half) + (tag % Half)]

\* Activity::getOrderTag
getOrderTag(a) == a.priority_order % Half

\* Activity::getQueueOrder
getQueueOrder(a) == a.queue_order

\* Activity::setPriority: keep the low half, store priority << 32 (the bits
\* shifted out of the word are lost).
setPriority(a, priority) ==
    [a EXCEPT !.priority_order =
        (a.priority_order % Half) + ((priority * Half) % Word)]

\* Activity::setQueueOrder
setQueueOrder(a, order) == [a EXCEPT !.queue_order = order % Word]

(* ------------------------------- Event -------------------------------- *)

\* Event::Event(): an Activity with the event priority and no delivery
\* information.  cls tells an Event from a NullEvent; st tells who holds the
\* object: the component that made it ("comp"), a queue ("queued"), or the
\* component it was returned to by recv or recvUntimedData.
Event ==
    [cls |-> "Event", st |-> "comp", delivery_info |-> 0,
     delivery_time |-> setPriority(Activity, EVENTPRIORITY).delivery_time,
     priority_order |-> setPriority(Activity, EVENTPRIORITY).priority_order,
     queue_order |-> setPriority(Activity, EVENTPRIORITY).queue_order]

\* NullEvent::NullEvent()
NullEvent == [Event EXCEPT !.cls = "NullEvent"]

\* A slot of the event store that holds no object yet.
NoEvent == [Event EXCEPT !.cls = "none", !.st = "none", !.priority_order = 0]

\* Variant of setDeliveryInfo that leaves the order tag alone.
setDeliveryInfo_keepTag(ev, tag, delivery_info) ==
    [ev EXCEPT !.delivery_info = delivery_info]

\* Event::setDeliveryInfo
setDeliveryInfo(ev, tag, delivery_info) ==
    [setOrderTag(ev, tag) EXCEPT !.delivery_info = delivery_info]

(* ------------------------------- state -------------------------------- *)

VARIABLES
    send_queue,         \* Link::send_queue, a queue object or NULL
    delivery_info,      \* Link::delivery_info, a handler or 0
    latency,            \* Link::latency
    pair_link,          \* Link::pair_link
    type,               \* Link::type
    mode,               \* Link::mode
    tag,                \* Link::tag
    current_time,       \* Simulation_impl::currentSimCycle
    untimed_phase,      \* Simulation_impl::untimed_phase
    untimed_msg_count,  \* Simulation_impl::untimed_msg_count
    queues,             \* the queue objects
    insertOrder,        \* the TimeVortex's insertion counter
    events,             \* the Event objects
    halted,             \* "" while running, else how the process ended
    configCalls,        \* configuration calls made so far
    modeCalls,          \* finalizeConfiguration/prepareForComplete calls so far
    acts,               \* comparison bench: three activities
    out,                \* comparison bench: the comparisons last made
    functors,           \* the handler objects: "live" or "deleted"
    exec,               \* per event object: what executing it did
    latCalls,           \* addSendLatency/addRecvLatency calls made so far
    destroyed,          \* per link object: how often its destructor has run
    id_counter,         \* Event::id_counter
    fetched,            \* per thread: the value its id_counter++ gave, not yet returned
    issued,             \* the ids generateUniqueId has returned
    repeated,           \* an id was returned that had been returned before
    idCalls             \* generateUniqueId calls started so far

linkVars == <<send_queue, delivery_info, latency, pair_link, type, mode, tag>>
simVars == <<current_time, untimed_phase, untimed_msg_count>>
heapVars == <<queues, insertOrder, events>>
callVars == <<configCalls, modeCalls>>
benchVars == <<acts, out>>
idVars == <<id_counter, fetched, issued, repeated, idCalls>>
restVars == <<functors, exec, latCalls, destroyed, idVars>>
vars == <<linkVars, simVars, heapVars, halted, callVars, benchVars, restVars>>

NoQueue == [kind |-> "none", items |-> <<>>, deleted |-> 0]

\* The comparison bench: three activities as Activity() makes them, each
\* with the priority and the order tag last given to it, and no comparison
\* made yet.
Slots == 1 .. 3
Flags == BOOLEAN \X BOOLEAN \X BOOLEAN
NoOut ==
    [done |-> FALSE,
     val |-> [f \in Flags |-> [i \in Slots |-> [j \in Slots |-> FALSE]]]]
BenchIdle ==
    /\ acts = [i \in Slots |-> [a |-> Activity, cls |-> 0, otag |-> 0]]
    /\ out = NoOut

\* Link::Link(LinkId_t tag) for every link, with pair_link as wire-up sets it.
LinksInit(pairing) ==
    /\ send_queue = [l \in Links |-> NULL]
    /\ delivery_info = [l \in Links |-> 0]
    /\ latency = [l \in Links |-> 1]
    /\ pair_link = pairing
    /\ type = [l \in Links |-> "UNINITIALIZED"]
    /\ mode = [l \in Links |-> "INIT"]
    /\ tag = [l \in Links |-> l]
    /\ current_time = 0
    /\ untimed_phase = 0
    /\ untimed_msg_count = 0
    /\ queues = [q \in QueueIds |->
                    IF q = TimeVortexId THEN [NoQueue EXCEPT !.kind = "TimeVortex"]
                    ELSE IF q = SyncQueueId THEN [NoQueue EXCEPT !.kind = "SyncQueue"]
                    ELSE NoQueue]
    /\ insertOrder = 0
    /\ events = [e \in EventIds |-> NoEvent]
    /\ halted = ""
    /\ configCalls = 0
    /\ modeCalls = 0

\* Two links paired with each other.
Paired == [l \in Links |-> CHOOSE m \in Links : m # l]

\* The threads of one rank, and the rank Simulation_impl::getRank() gives them.
Threads == {1, 2}
Rank == 0
\* The values of id_counter, and the calls made on it: enough to use them all.
IdWord == 2 ^ IdBits
MaxIdCalls == IdWord + 1
\* A thread that is not inside generateUniqueId.
NoFetch == 0 - 1

\* No event executed yet, every handler object as its component made it, no
\* latency added.
NoExec == [handler |-> 0, arg |-> "none", calls |-> 0, freed |-> 0]
RestIdle ==
    /\ functors = [f \in FunctorIds |-> "live"]
    /\ exec = [e \in EventIds |-> NoExec]
    /\ latCalls = 0
    /\ destroyed = [l \in Links |-> 0]
    /\ id_counter = 0
    /\ fetched = [t \in Threads |-> NoFetch]
    /\ issued = {}
    /\ repeated = FALSE
    /\ idCalls = 0

Init == LinksInit(Paired) /\ BenchIdle /\ RestIdle

(* --------------------- environment (from the spec) -------------------- *)

\* Output::fatal: the message goes to the fatal sink and the process ends.
Fatal(msg) ==
    /\ halted' = msg
    /\ UNCHANGED <<linkVars, simVars, heapVars, callVars, benchVars, restVars>>

\* The process dies on a null dereference.
Crash ==
    /\ halted' = "crash"
    /\ UNCHANGED <<linkVars, simVars, heapVars, callVars, benchVars, restVars>>

\* Using or deleting a queue object that was deleted is undefined: the call
\* may go through on the stale object, or the process may die in it.
Outcome(q) == IF queues[q].deleted > 0 THEN {"", "crash"} ELSE {""}

\* operator new: the first queue slot not yet used, or NULL when none is left.
FreeQueue ==
    IF \E q \in QueueIds : queues[q].kind = "none"
    THEN CHOOSE q \in QueueIds :
            /\ queues[q].kind = "none"
            /\ \A r \in QueueIds : queues[r].kind = "none" => q <= r
    ELSE NULL

\* operator new: the first event slot not yet used, or NULL when none is left.
FreeEvent ==
    IF \E e \in EventIds : events[e].cls = "none"
    THEN CHOOSE e \in EventIds :
            /\ events[e].cls = "none"
            /\ \A f \in EventIds : events[f].cls = "none" => e <= f
    ELSE NULL

\* delete q (delete nullptr does nothing).
Delete(qs, q) ==
    IF q = NULL THEN qs
    ELSE [qs EXCEPT ![q].deleted = IF @ < 2 THEN @ + 1 ELSE @]

\* ActivityQueue::empty / front
empty(q) == queues[q].items = <<>>
front(q) == Head(queues[q].items)

\* ActivityQueue::pop
pop(qs, q) == [qs EXCEPT ![q].items = Tail(@)]

\* Scheduling violation: the queue refuses an activity that is already late
\* (an InitQueue counts in phases, the other queues in cycles).
Late(qs, q, a) ==
    IF qs[q].kind = "InitQueue"
    THEN a.delivery_time < untimed_phase
    ELSE a.delivery_time < current_time

\* The queue_order the queue gives the activity: the TimeVortex numbers its
\* insertions, the other queues keep insertion order themselves.
Stamp(kind, a) ==
    IF kind = "TimeVortex" THEN setQueueOrder(a, insertOrder) ELSE a

\* The items of a queue of the given kind after inserting e (evs holds the
\* stamped event): the TimeVortex keeps the less<true,true,true> order, the
\* other queues append.
Inserted(kind, items, e, evs) ==
    IF kind = "TimeVortex"
    THEN LET k == Cardinality({i \in 1 .. Len(items) :
                      ~ less(TRUE, TRUE, TRUE, evs[e], evs[items[i]])})
         IN  SubSeq(items, 1, k) \o <<e>> \o SubSeq(items, k + 1, Len(items))
    ELSE Append(items, e)

\* ActivityQueue::insert of event e, already given the fields ev, into queue
\* q of the heap qs.
insert(qs, q, e, ev) ==
    LET kind == qs[q].kind
        evs == [events EXCEPT ![e] = [Stamp(kind, ev) EXCEPT !.st = "queued"]]
    IN  /\ events' = evs
        /\ queues' = [qs EXCEPT ![q].items = Inserted(kind, @, e, evs)]
        /\ insertOrder' = IF kind = "TimeVortex" THEN insertOrder + 1 ELSE insertOrder

\* The scheduler advances the simulated clock (in the run phase, which some
\* link has entered).
AdvanceTime ==
    /\ halted = ""
    /\ \E l \in Links : mode[l] = "RUN"
    /\ current_time < MaxTime
    /\ current_time' = current_time + 1
    /\ UNCHANGED <<linkVars, untimed_phase, untimed_msg_count, heapVars, halted,
                   callVars, benchVars, restVars>>

\* The untimed-phase driver starts the next phase and resets the count (in
\* the init and complete phases, which some link is in).
AdvancePhase ==
    /\ halted = ""
    /\ \E l \in Links : mode[l] # "RUN"
    /\ untimed_phase < MaxPhase
    /\ untimed_phase' = untimed_phase + 1
    /\ untimed_msg_count' = 0
    /\ UNCHANGED <<linkVars, current_time, heapVars, halted, callVars, benchVars, restVars>>

\* The sync manager takes link l as its end of a cross-rank connection and
\* installs its staging queue as the queue the local end sends into.
setAsSyncLink(l) ==
    /\ halted = ""
    /\ configCalls < MaxConfigCalls
    /\ mode[l] = "INIT"
    /\ type[l] = "UNINITIALIZED"
    /\ type' = [type EXCEPT ![l] = "SYNC"]
    /\ send_queue' = [send_queue EXCEPT ![pair_link[l]] = SyncQueueId]
    /\ configCalls' = configCalls + 1
    /\ UNCHANGED <<delivery_info, latency, pair_link, mode, tag, simVars, heapVars,
                   halted, modeCalls, benchVars, restVars>>

(* -------------------------------- Link -------------------------------- *)

\* The messages of Link's fatal errors.
SendDuringInit ==
    "ERROR: Trying to send or recv from link during initialization.  Send and Recv cannot be called before setup."
SendDuringComplete == "ERROR: Trying to call send or recv during complete phase."
UntimedDuringRun ==
    "ERROR: Trying to call sendUntimedData/sendInitData or recvUntimedData/recvInitData during the run phase."
RecvOnHandlerLink ==
    "Cannot call recv on a Link with an event handler installed (non-polling link."
SetFunctorOnPollingLink == "Cannot call setFunctor on a Polling Link"

\* Variant of finalizeVisits in which a Sync link does not return at once.
RECURSIVE finalizeVisits_noReturn(_, _)
finalizeVisits_noReturn(l, fuel) ==
    IF fuel = 0
    THEN <<NULL>>
    ELSE IF pair_link[l] # NULL /\ type[pair_link[l]] = "SYNC"
         THEN <<l>> \o finalizeVisits_noReturn(pair_link[l], fuel - 1)
         ELSE <<l>>

\* Link::finalizeConfiguration, the chain of calls: the links whose
\* finalizeConfiguration runs, in order, when it is called on l.  A Sync link
\* returns at once; another link ends by calling a Sync peer.  NULL at the
\* end says the chain had not ended after fuel calls.
RECURSIVE finalizeVisits(_, _)
finalizeVisits(l, fuel) ==
    IF fuel = 0
    THEN <<NULL>>
    ELSE IF type[l] = "SYNC"
    THEN <<l>>
    ELSE IF pair_link[l] # NULL /\ type[pair_link[l]] = "SYNC"
         THEN <<l>> \o finalizeVisits(pair_link[l], fuel - 1)
         ELSE <<l>>

\* Link::prepareForComplete, the chain of calls, as for finalizeConfiguration.
RECURSIVE prepareVisits(_, _)
prepareVisits(l, fuel) ==
    IF fuel = 0
    THEN <<NULL>>
    ELSE IF type[l] = "SYNC"
    THEN <<l>>
    ELSE IF pair_link[l] # NULL /\ type[pair_link[l]] = "SYNC"
         THEN <<l>> \o prepareVisits(pair_link[l], fuel - 1)
         ELSE <<l>>

\* l is one of the links visited.
Visited(visits, l) == \E i \in DOMAIN visits : visits[i] = l

\* Variant of installedQueue that leaves the peer's queue as it is.
installedQueue_keep(l, q) == q

\* Link::finalizeConfiguration, the queue the peer sends into afterwards: the
\* TimeVortex for a Handler link, a new PollingLinkQueue for a Poll link,
\* else the queue q it had.
installedQueue(l, q) ==
    IF type[l] = "HANDLER" THEN TimeVortexId
    ELSE IF type[l] = "POLL" THEN FreeQueue
    ELSE q

\* Link::finalizeConfiguration
finalizeConfiguration(l) ==
    /\ halted = ""
    /\ modeCalls < MaxModeCalls
    /\ LET p == pair_link[l]
           visits == finalizeVisits(l, MaxCallDepth)
       IN  IF Visited(visits, NULL)
           THEN Crash    \* the calls never return: the stack runs out
           ELSE IF type[l] = "SYNC"
           THEN /\ mode' = [mode EXCEPT ![l] = "RUN"]
                /\ modeCalls' = modeCalls + 1
                /\ UNCHANGED <<send_queue, delivery_info, latency, pair_link, type, tag,
                               simVars, heapVars, halted, configCalls, benchVars, restVars>>
           ELSE IF p = NULL
           THEN Crash
           ELSE /\ type[l] = "POLL" => FreeQueue # NULL
                /\ LET \* if ( nullptr == pair_link->send_queue ) { delete; = nullptr }
                       qs1 == IF send_queue[p] = NULL
                              THEN Delete(queues, send_queue[p]) ELSE queues
                       sq1 == IF send_queue[p] = NULL
                              THEN [send_queue EXCEPT ![p] = NULL] ELSE send_queue
                   IN  /\ send_queue' = [sq1 EXCEPT ![p] = installedQueue(l, sq1[p])]
                       /\ queues' =
                            IF type[l] = "POLL"
                            THEN [qs1 EXCEPT ![FreeQueue] =
                                     [NoQueue EXCEPT !.kind = "PollingLinkQueue"]]
                            ELSE qs1
                \* mode = RUN, and pair_link->finalizeConfiguration() for a SYNC
                \* peer, which sets the peer's mode and returns
                /\ mode' = [m \in Links |->
                              IF Visited(visits, m) THEN "RUN" ELSE mode[m]]
                /\ modeCalls' = modeCalls + 1
                /\ UNCHANGED <<delivery_info, latency, pair_link, type, tag, simVars,
                               insertOrder, events, halted, configCalls, benchVars, restVars>>

\* Variant of prepareForComplete that only sets the mode.
prepareForComplete_keepQueue(l) ==
    /\ halted = ""
    /\ modeCalls < MaxModeCalls
    /\ mode' = [mode EXCEPT ![l] = "COMPLETE"]
    /\ modeCalls' = modeCalls + 1
    /\ UNCHANGED <<send_queue, delivery_info, latency, pair_link, type, tag,
                   simVars, heapVars, halted, configCalls, benchVars, restVars>>

\* Link::prepareForComplete
prepareForComplete(l) ==
    /\ halted = ""
    /\ modeCalls < MaxModeCalls
    /\ LET p == pair_link[l]
           visits == prepareVisits(l, MaxCallDepth)
       IN  IF Visited(visits, NULL)
           THEN Crash    \* the calls never return: the stack runs out
           ELSE IF type[l] = "SYNC"
           THEN /\ mode' = [mode EXCEPT ![l] = "COMPLETE"]
                /\ modeCalls' = modeCalls + 1
                /\ UNCHANGED <<send_queue, delivery_info, latency, pair_link, type, tag,
                               simVars, heapVars, halted, configCalls, benchVars, restVars>>
           ELSE IF p = NULL
           THEN Crash
           ELSE \* if ( POLL == type ) { delete pair_link->send_queue; }
                /\ halted' \in IF type[l] = "POLL" /\ send_queue[p] # NULL
                               THEN Outcome(send_queue[p]) ELSE {""}
                /\ queues' = IF type[l] = "POLL"
                             THEN Delete(queues, send_queue[p]) ELSE queues
                /\ send_queue' = [send_queue EXCEPT ![p] = NULL]
                /\ mode' = [m \in Links |->
                              IF Visited(visits, m) THEN "COMPLETE" ELSE mode[m]]
                /\ modeCalls' = modeCalls + 1
                /\ UNCHANGED <<delivery_info, latency, pair_link, type, tag, simVars,
                               insertOrder, events, configCalls, benchVars, restVars>>

\* Link::setPolling
setPolling(l) ==
    /\ halted = ""
    /\ configCalls < MaxConfigCalls
    /\ type' = [type EXCEPT ![l] = "POLL"]
    /\ configCalls' = configCalls + 1
    /\ UNCHANGED <<send_queue, delivery_info, latency, pair_link, mode, tag, simVars,
                   heapVars, halted, modeCalls, benchVars, restVars>>

\* Link::setLatency
setLatency(l, lat) ==
    /\ halted = ""
    /\ configCalls < MaxConfigCalls
    /\ latency' = [latency EXCEPT ![l] = lat]
    /\ configCalls' = configCalls + 1
    /\ UNCHANGED <<send_queue, delivery_info, pair_link, type, mode, tag, simVars,
                   heapVars, halted, modeCalls, benchVars, restVars>>

\* Variant of functorAllowed without the check of the link's type.
functorAllowed_anyKind(l) == TRUE

\* Link::setFunctor and Link::replaceFunctor, the check that this is not a
\* polling link: if ( type == POLL ) fatal
functorAllowed(l) == type[l] # "POLL"

\* Link::setFunctor
setFunctor(l, functor) ==
    /\ halted = ""
    /\ configCalls < MaxConfigCalls
    /\ IF ~ functorAllowed(l)
       THEN Fatal(SetFunctorOnPollingLink)
       ELSE IF pair_link[l] = NULL
       THEN Crash
       ELSE /\ type' = [type EXCEPT ![l] = "HANDLER"]
            /\ delivery_info' = [delivery_info EXCEPT ![pair_link[l]] = functor]
            /\ configCalls' = configCalls + 1
            /\ UNCHANGED <<send_queue, latency, pair_link, mode, tag, simVars,
                           heapVars, halted, modeCalls, benchVars, restVars>>

\* Variant of sendAllowed that lets a send through in Complete mode.
sendAllowed_notInit(l) == mode[l] # "INIT"

\* Link::send_impl, the mode check: if ( RUN != mode ) fatal
sendAllowed(l) == mode[l] = "RUN"

\* Variant of deliveryCycle that leaves the latency out.
deliveryCycle_noLatency(l, delay) == (current_time + delay) % Word

\* Link::send_impl: Cycle_t cycle = current_time + delay + latency
deliveryCycle(l, delay) == (current_time + delay + latency[l]) % Word

\* Link::send_impl
send_impl(l, delay, event) ==
    /\ halted = ""
    /\ IF ~ sendAllowed(l)
       THEN IF mode[l] = "INIT"
            THEN Fatal(SendDuringInit)
            ELSE Fatal(SendDuringComplete)
       ELSE LET cycle == deliveryCycle(l, delay)
                \* if ( event == nullptr ) { event = new NullEvent(); }
                e == FreeEvent
                obj == IF event = NULLEVENT THEN NullEvent ELSE Event
                ev == setDeliveryInfo(setDeliveryTime(obj, cycle), tag[l], delivery_info[l])
                q == send_queue[l]
            IN  /\ e # NULL
                /\ IF q = NULL
                   THEN Crash
                   ELSE IF Late(queues, q, ev)
                   THEN Fatal("Scheduling violation")
                   ELSE /\ halted' \in Outcome(q)
                        /\ insert(queues, q, e, ev)
                        /\ UNCHANGED <<linkVars, simVars, callVars, benchVars, restVars>>

\* Variant of recvReady that does not look at the delivery time.
recvReady_anyTime(q) == ~ empty(q)

\* Link::recv: the front of the queue is handed out once its time has come
recvReady(q) == ~ empty(q) /\ events[front(q)].delivery_time <= current_time

\* Variant of recvAllowed without the check of the link's type.
recvAllowed_anyKind(l) == TRUE

\* Link::recv, the check that this is a polling link: if ( type != POLL ) fatal
recvAllowed(l) == type[l] = "POLL"

\* Link::recv
recv(l) ==
    /\ halted = ""
    /\ IF ~ recvAllowed(l)
       THEN Fatal(RecvOnHandlerLink)
       ELSE IF pair_link[l] = NULL
       THEN Crash
       ELSE LET q == send_queue[pair_link[l]]
            IN  IF q = NULL
                THEN Crash
                ELSE /\ halted' \in Outcome(q)
                     /\ IF recvReady(q)
                        THEN /\ events' = [events EXCEPT ![front(q)].st = "recv"]
                             /\ queues' = pop(queues, q)
                        ELSE UNCHANGED <<events, queues>>
                     /\ UNCHANGED <<linkVars, simVars, insertOrder, callVars, benchVars, restVars>>

\* Variant of untimedSendAllowed without the mode check.
untimedSendAllowed_always(l) == TRUE

\* Link::sendUntimedData, the mode check: if ( RUN == mode ) fatal
untimedSendAllowed(l) == mode[l] # "RUN"

\* Variant of untimedDeliveryTime that delivers in the phase of the send.
untimedDeliveryTime_thisPhase == untimed_phase

\* Link::sendUntimedData: data->setDeliveryTime(untimed_phase + 1)
untimedDeliveryTime == untimed_phase + 1

\* Variant of msgCountAfterSend that does not count the message.
msgCountAfterSend_same(n) == n

\* Link::sendUntimedData: Simulation_impl::untimed_msg_count++
msgCountAfterSend(n) == n + 1

\* Link::sendUntimedData
sendUntimedData(l, data) ==
    /\ halted = ""
    /\ IF ~ untimedSendAllowed(l)
       THEN Fatal(UntimedDuringRun)
       ELSE LET fresh == send_queue[l] = NULL
                \* if ( send_queue == nullptr ) { send_queue = new InitQueue(); }
                q == IF fresh THEN FreeQueue ELSE send_queue[l]
                qs == IF fresh /\ q # NULL
                      THEN [queues EXCEPT ![q] = [NoQueue EXCEPT !.kind = "InitQueue"]]
                      ELSE queues
                e == FreeEvent
                ev == setDeliveryInfo(setDeliveryTime(Event, untimedDeliveryTime),
                                      tag[l], delivery_info[l])
            IN  /\ q # NULL
                /\ e # NULL
                /\ IF Late(qs, q, ev)
                   THEN Fatal("Scheduling violation")
                   ELSE /\ halted' \in Outcome(q)
                        /\ send_queue' = [send_queue EXCEPT ![l] = q]
                        /\ untimed_msg_count' = msgCountAfterSend(untimed_msg_count)
                        /\ insert(qs, q, e, ev)
                        /\ UNCHANGED <<delivery_info, latency, pair_link, type, mode,
                                       tag, current_time, untimed_phase, callVars,
                                       benchVars, restVars>>

\* Link::sendUntimedData_sync: the sync manager hands the link an event that
\* the other rank sent with sendUntimedData in this phase; the event keeps the
\* fields it arrived with.
sendUntimedData_sync(l, data) ==
    /\ halted = ""
    /\ LET fresh == send_queue[l] = NULL
           \* if ( send_queue == nullptr ) { send_queue = new InitQueue(); }
           q == IF fresh THEN FreeQueue ELSE send_queue[l]
           qs == IF fresh /\ q # NULL
                 THEN [queues EXCEPT ![q] = [NoQueue EXCEPT !.kind = "InitQueue"]]
                 ELSE queues
           e == FreeEvent
           ev == setDeliveryTime(Event, untimedDeliveryTime)
       IN  /\ q # NULL
           /\ e # NULL
           /\ IF Late(qs, q, ev)
              THEN Fatal("Scheduling violation")
              ELSE /\ halted' \in Outcome(q)
                   /\ send_queue' = [send_queue EXCEPT ![l] = q]
                   /\ insert(qs, q, e, ev)
                   /\ UNCHANGED <<delivery_info, latency, pair_link, type, mode, tag,
                                  simVars, callVars, benchVars, restVars>>

\* Link::recvUntimedData: the front of the queue is handed out once its
\* phase has come
recvUntimedReady(q) == ~ empty(q) /\ events[front(q)].delivery_time <= untimed_phase

\* Link::recvUntimedData
recvUntimedData(l) ==
    /\ halted = ""
    /\ IF pair_link[l] = NULL
       THEN Crash
       ELSE LET q == send_queue[pair_link[l]]
            IN  IF q = NULL
                THEN UNCHANGED vars
                ELSE /\ halted' \in Outcome(q)
                     /\ IF recvUntimedReady(q)
                        THEN /\ events' = [events EXCEPT ![front(q)].st = "recvUntimedData"]
                             /\ queues' = pop(queues, q)
                        ELSE UNCHANGED <<events, queues>>
                     /\ UNCHANGED <<linkVars, simVars, insertOrder, callVars, benchVars, restVars>>

(* ------------------------ handlers and latency ----------------------- *)

ReplaceFunctorOnPollingLink == "Cannot call replaceFunctor on a Polling Link"

\* A handler object the component at link l has made and not yet installed.
NewFunctors(l) ==
    {f \in FunctorsOf(l) :
        functors[f] = "live" /\ \A m \in Links : delivery_info[m] # f}

\* Link::replaceFunctor
replaceFunctor(l, functor) ==
    /\ halted = ""
    /\ configCalls < MaxConfigCalls
    /\ IF ~ functorAllowed(l)
       THEN Fatal(ReplaceFunctorOnPollingLink)
       ELSE IF pair_link[l] = NULL
       THEN Crash
       ELSE LET old == delivery_info[pair_link[l]]
            IN  /\ type' = [type EXCEPT ![l] = "HANDLER"]
                \* if ( pair_link->delivery_info ) { ...; delete handler; }
                /\ halted' \in IF old # 0 /\ functors[old] = "deleted"
                               THEN {"", "crash"} ELSE {""}
                /\ functors' = IF old # 0
                               THEN [functors EXCEPT ![old] = "deleted"]
                               ELSE functors
                /\ delivery_info' = [delivery_info EXCEPT ![pair_link[l]] = functor]
                /\ configCalls' = configCalls + 1
                /\ UNCHANGED <<send_queue, latency, pair_link, mode, tag, simVars,
                               heapVars, modeCalls, benchVars, exec, latCalls, destroyed,
                               idVars>>

\* The values the components pass to addSendLatency and addRecvLatency: a
\* number of cycles (an int, which may be negative) and a time base, given
\* here by the core cycles that TimeLord::getSimCycles or
\* TimeConverter::convertToCoreTime makes of one unit of it.
CycleInputs == {0 - 1, 3}
Timebases == {1, 2}

\* latency += (cycles * tb), in Cycle_t
addLatency(lat, cycles, tb) == (lat + ((cycles * tb) % Word)) % Word

\* Link::addSendLatency
addSendLatency(l, cycles, tb) ==
    /\ halted = ""
    /\ latCalls < MaxLatencyCalls
    /\ latency' = [latency EXCEPT ![l] = addLatency(@, cycles, tb)]
    /\ latCalls' = latCalls + 1
    /\ UNCHANGED <<send_queue, delivery_info, pair_link, type, mode, tag, simVars,
                   heapVars, halted, callVars, benchVars, functors, exec, destroyed,
                   idVars>>

\* Variant of recvLatencyTarget that charges the link itself.
recvLatencyTarget_self(l) == l

\* Link::addRecvLatency: pair_link->latency += ...
recvLatencyTarget(l) == pair_link[l]

\* Link::addRecvLatency
addRecvLatency(l, cycles, tb) ==
    /\ halted = ""
    /\ latCalls < MaxLatencyCalls
    /\ IF pair_link[l] = NULL
       THEN Crash
       ELSE /\ latency' = [latency EXCEPT ![recvLatencyTarget(l)] = addLatency(@, cycles, tb)]
            /\ latCalls' = latCalls + 1
            /\ UNCHANGED <<send_queue, delivery_info, pair_link, type, mode, tag,
                           simVars, heapVars, halted, callVars, benchVars, functors,
                           exec, destroyed, idVars>>

\* Event::execute: (*reinterpret_cast<HandlerBase*>(delivery_info))(this)
Event_execute(ev, r) ==
    [r EXCEPT !.handler = ev.delivery_info, !.arg = "this", !.calls = @ + 1]

\* Variant of NullEvent_execute that does not delete the event.
NullEvent_execute_noDelete(ev, r) ==
    [r EXCEPT !.handler = ev.delivery_info, !.arg = "nullptr", !.calls = @ + 1]

\* NullEvent::execute: the handler is called with nullptr; delete this
NullEvent_execute(ev, r) ==
    [r EXCEPT !.handler = ev.delivery_info, !.arg = "nullptr", !.calls = @ + 1,
              !.freed = @ + 1]

\* The scheduler takes the front activity off the TimeVortex once it is due
\* and executes it.  Calling through a null delivery_info ends the process;
\* calling a handler that was deleted is undefined.
Execute ==
    /\ halted = ""
    /\ ~ empty(TimeVortexId)
    /\ LET e == front(TimeVortexId)
           ev == events[e]
           h == ev.delivery_info
       IN  /\ ev.delivery_time <= current_time
           /\ IF h = NULL
              THEN Crash
              ELSE /\ halted' \in Outcome(TimeVortexId) \cup
                                  (IF functors[h] = "deleted" THEN {"", "crash"} ELSE {""})
                   /\ queues' = pop(queues, TimeVortexId)
                   /\ exec' = [exec EXCEPT ![e] =
                                 IF ev.cls = "NullEvent"
                                 THEN NullEvent_execute(ev, @)
                                 ELSE Event_execute(ev, @)]
                   /\ events' = [events EXCEPT ![e].st =
                                   IF ev.cls = "NullEvent" THEN "freed" ELSE "handler"]
                   /\ UNCHANGED <<linkVars, simVars, insertOrder, callVars, benchVars,
                                  functors, latCalls, destroyed, idVars>>

NextRun ==
    \/ AdvanceTime
    \/ \E l \in Links : \E f \in NewFunctors(l) : setFunctor(l, f)
    \/ \E l \in Links : \E f \in NewFunctors(l) : replaceFunctor(l, f)
    \/ \E l \in Links : setPolling(l)
    \/ \E l \in Links, n \in CycleInputs, tb \in Timebases : addSendLatency(l, n, tb)
    \/ \E l \in Links, n \in CycleInputs, tb \in Timebases : addRecvLatency(l, n, tb)
    \/ \E l \in Links : finalizeConfiguration(l)
    \/ \E l \in Links, d \in Delays, e \in EventInputs : send_impl(l, d, e)
    \/ Execute

SpecRun == Init /\ [][NextRun]_vars

(* ------------------- pairings, destruction, call chains --------------- *)

\* Each link paired with itself.
SelfPaired == [l \in Links |-> l]

\* The link objects not destroyed.
Live == {l \in Links : destroyed[l] = 0}

\* Variant of Link_destructor that clears the link's own pair_link, and leaves
\* the peer pointing back at the link.
RECURSIVE Link_destructor_noUnpair(_, _, _, _)
Link_destructor_noUnpair(l, pl, ds, fuel) ==
    LET p == pl[l]
        ds1 == [ds EXCEPT ![l] = @ + 1]
    IN  IF fuel = 0
        THEN [pair_link |-> pl, destroyed |-> ds, returned |-> FALSE]
        ELSE IF p # NULL /\ p # l
        THEN IF type[p] = "SYNC"
             THEN Link_destructor_noUnpair(p, [pl EXCEPT ![l] = NULL], ds1, fuel - 1)
             ELSE [pair_link |-> pl, destroyed |-> ds1, returned |-> TRUE]
        ELSE [pair_link |-> pl, destroyed |-> ds1, returned |-> TRUE]

\* Link::~Link, run on link l with the links' pair_link fields pl and the
\* count ds of destructor runs per object: the peer's pair_link is cleared
\* first, then a Sync peer is deleted, which runs its destructor in turn.
RECURSIVE Link_destructor(_, _, _, _)
Link_destructor(l, pl, ds, fuel) ==
    LET p == pl[l]
        ds1 == [ds EXCEPT ![l] = @ + 1]
    IN  IF fuel = 0
        THEN [pair_link |-> pl, destroyed |-> ds, returned |-> FALSE]
        ELSE IF p # NULL /\ p # l
        THEN LET pl1 == [pl EXCEPT ![p] = NULL]
             IN  IF type[p] = "SYNC"
                 THEN Link_destructor(p, pl1, ds1, fuel - 1)
                 ELSE [pair_link |-> pl1, destroyed |-> ds1, returned |-> TRUE]
        ELSE [pair_link |-> pl, destroyed |-> ds1, returned |-> TRUE]

\* delete on a link object that is still alive.  Deleting an object a second
\* time is undefined: it may go unnoticed, or the process may die in it.
deleteLink(l) ==
    /\ halted = ""
    /\ destroyed[l] = 0
    /\ LET r == Link_destructor(l, pair_link, destroyed, MaxCallDepth)
       IN  IF ~r.returned
           THEN Crash
           ELSE /\ pair_link' = r.pair_link
                /\ destroyed' = r.destroyed
                /\ halted' \in IF \E m \in Links : r.destroyed[m] > 1
                               THEN {"", "crash"} ELSE {""}
                /\ UNCHANGED <<send_queue, delivery_info, latency, type, mode, tag,
                               simVars, heapVars, callVars, benchVars, functors, exec,
                               latCalls, idVars>>

\* Links wired up in pairs or to themselves; only live objects are called.
InitLoop ==
    /\ \E pairing \in {Paired, SelfPaired} : LinksInit(pairing)
    /\ BenchIdle
    /\ RestIdle

NextLoop ==
    \/ \E l \in Live : setAsSyncLink(l)
    \/ \E l \in Live : setPolling(l)
    \/ \E l \in Live : setFunctor(l, HandlerOf(l))
    \/ \E l \in Live : finalizeConfiguration(l)
    \/ \E l \in Live : prepareForComplete(l)
    \/ \E l \in Live : deleteLink(l)

SpecLoop == InitLoop /\ [][NextLoop]_vars

(* ------------------------------ event ids ----------------------------- *)

\* Event::generateUniqueId, first step: id_counter++ on the atomic counter,
\* one indivisible read and increment of a uint64_t.
generateUniqueId_fetch(t) ==
    /\ halted = ""
    /\ idCalls < MaxIdCalls
    /\ fetched[t] = NoFetch
    /\ fetched' = [fetched EXCEPT ![t] = id_counter]
    /\ id_counter' = (id_counter + 1) % IdWord
    /\ idCalls' = idCalls + 1
    /\ UNCHANGED <<linkVars, simVars, heapVars, halted, callVars, benchVars,
                   functors, exec, latCalls, destroyed, issued, repeated>>

\* Event::generateUniqueId, second step: the pair of the value read and the
\* rank is returned.
generateUniqueId_return(t) ==
    /\ halted = ""
    /\ fetched[t] # NoFetch
    /\ LET id == <<fetched[t], Rank>>
       IN  /\ repeated' = (repeated \/ id \in issued)
           /\ issued' = issued \cup {id}
    /\ fetched' = [fetched EXCEPT ![t] = NoFetch]
    /\ UNCHANGED <<linkVars, simVars, heapVars, halted, callVars, benchVars,
                   functors, exec, latCalls, destroyed, id_counter, idCalls>>

NextId ==
    \/ \E t \in Threads : generateUniqueId_fetch(t)
    \/ \E t \in Threads : generateUniqueId_return(t)

SpecId == Init /\ [][NextId]_vars

(* -------------------------- comparison bench -------------------------- *)

\* The values the bench passes to the setters: two delivery times, the clock
\* and the event priority, three order tags, two queue orders.
TimeInputs == {0, 10}
PriorityInputs == {CLOCKPRIORITY, EVENTPRIORITY}
TagInputs == {1, 2, 9}
OrderInputs == {0, 1}

\* Activity::setDeliveryTime on activity i
ApplySetDeliveryTime(i, time) ==
    /\ acts' = [acts EXCEPT ![i].a = setDeliveryTime(@, time)]
    /\ out' = NoOut
    /\ UNCHANGED <<linkVars, simVars, heapVars, halted, callVars, restVars>>

\* Activity::setPriority on activity i
ApplySetPriority(i, priority) ==
    /\ acts' = [acts EXCEPT ![i].a = setPriority(@, priority), ![i].cls = priority]
    /\ out' = NoOut
    /\ UNCHANGED <<linkVars, simVars, heapVars, halted, callVars, restVars>>

\* Activity::setOrderTag on activity i
ApplySetOrderTag(i, t) ==
    /\ acts' = [acts EXCEPT ![i].a = setOrderTag(@, t), ![i].otag = t]
    /\ out' = NoOut
    /\ UNCHANGED <<linkVars, simVars, heapVars, halted, callVars, restVars>>

\* Activity::setQueueOrder on activity i
ApplySetQueueOrder(i, order) ==
    /\ acts' = [acts EXCEPT ![i].a = setQueueOrder(@, order)]
    /\ out' = NoOut
    /\ UNCHANGED <<linkVars, simVars, heapVars, halted, callVars, restVars>>

\* Activity::less<T,P,Q>()(lhs, rhs) for every instantiation and every two
\* of the activities.
Compare ==
    /\ ~ out.done
    /\ out' = [done |-> TRUE,
               val |-> [f \in Flags |-> [i \in Slots |-> [j \in Slots |->
                          less(f[1], f[2], f[3], acts[i].a, acts[j].a)]]]]
    /\ UNCHANGED <<linkVars, simVars, heapVars, halted, callVars, acts, restVars>>

NextOrd ==
    \/ \E i \in Slots, time \in TimeInputs : ApplySetDeliveryTime(i, time)
    \/ \E i \in Slots, priority \in PriorityInputs : ApplySetPriority(i, priority)
    \/ \E i \in Slots, t \in TagInputs : ApplySetOrderTag(i, t)
    \/ \E i \in Slots, order \in OrderInputs : ApplySetQueueOrder(i, order)
    \/ Compare

SpecOrd == Init /\ [][NextOrd]_vars

\* Values of setPriority's parameter, a uint64_t: a priority in use, the
\* largest that fits an int, the first that does not, the largest of the high
\* half, and one that needs more bits than the high half has.
PriorityValues ==
    {EVENTPRIORITY, (Half \div 2) - 1, Half \div 2, Half - 1, Half + EVENTPRIORITY}

\* setPriority and setOrderTag called on the activities with any such value.
NextPrio ==
    \/ \E i \in Slots, priority \in PriorityValues : ApplySetPriority(i, priority)
    \/ \E i \in Slots, t \in TagInputs : ApplySetOrderTag(i, t)

SpecPrio == Init /\ [][NextPrio]_vars

(* --------------------------- specification ---------------------------- *)

Next ==
    \/ AdvanceTime
    \/ AdvancePhase
    \/ \E l \in Links : setAsSyncLink(l)
    \/ \E l \in Links : finalizeConfiguration(l)
    \/ \E l \in Links : prepareForComplete(l)
    \/ \E l \in Links : setPolling(l)
    \/ \E l \in Links, lat \in LatencyInputs : setLatency(l, lat)
    \/ \E l \in Links : setFunctor(l, HandlerOf(l))
    \/ \E l \in Links, d \in Delays, e \in EventInputs : send_impl(l, d, e)
    \/ \E l \in Links : recv(l)
    \/ \E l \in Links : sendUntimedData(l, FRESH)
    \/ \E l \in Links : recvUntimedData(l)

Spec == Init /\ [][Next]_vars

\* The untimed phases and the calls made around them: the phase boundary,
\* the two untimed sends and the untimed receive, and send, recv and the mode
\* changes on links with no kind or made polling links.
NextUntimed ==
    \/ AdvancePhase
    \/ \E l \in Links : sendUntimedData(l, FRESH)
    \/ \E l \in Links : sendUntimedData_sync(l, FRESH)
    \/ \E l \in Links : recvUntimedData(l)
    \/ \E l \in Links : setPolling(l)
    \/ \E l \in Links : finalizeConfiguration(l)
    \/ \E l \in Links : prepareForComplete(l)
    \/ \E l \in Links, d \in Delays, e \in EventInputs : send_impl(l, d, e)
    \/ \E l \in Links : recv(l)

SpecUntimed == Init /\ [][NextUntimed]_vars

(* ------------------------------ properties ---------------------------- *)

\* e is one of the items.
In(items, e) == \E i \in DOMAIN items : items[i] = e

\* The event object the step creates.
Created(e) == events[e].cls = "none" /\ events'[e].cls # "none"

C2_RecvFront ==
    [][/\ \A l \in Links :
            (recv(l) /\ type[l] = "POLL" /\ mode[l] = "RUN" /\ halted' = "") =>
               LET q == send_queue[pair_link[l]]
                   items == queues[q].items
               IN  IF items # <<>> /\ events[Head(items)].delivery_time <= current_time
                   THEN /\ events' = [events EXCEPT ![Head(items)].st = "recv"]
                        /\ queues' = [queues EXCEPT ![q].items = Tail(items)]
                   ELSE UNCHANGED <<queues, events>>
       /\ \A e \in EventIds :
            /\ (events[e].st # "recv" /\ events'[e].st = "recv") =>
                  events[e].delivery_time <= current_time
            /\ events'[e].st = "recv" => \A q \in QueueIds : ~ In(queues'[q].items, e)
            /\ events[e].st = "recv" => events'[e] = events[e]
      ]_vars

\* A Poll link in Run mode has received an event at its delivery time, which
\* is later than the time it was sent at.
C2_Witness ==
    \E l \in Links, e \in EventIds :
        /\ halted = ""
        /\ type[l] = "POLL"
        /\ mode[l] = "RUN"
        /\ events[e].st = "recv"
        /\ getOrderTag(events[e]) = tag[pair_link[l]]
        /\ events[e].delivery_time = current_time
        /\ current_time > 0

\* a precedes b lexicographically on the fields selected by T, P, Q, taken
\* in the order delivery_time, priority_order, queue_order.
LexLess(T, P, Q, a, b) ==
    \/ T /\ a.delivery_time < b.delivery_time
    \/ /\ T => a.delivery_time = b.delivery_time
       /\ P /\ a.priority_order < b.priority_order
    \/ /\ T => a.delivery_time = b.delivery_time
       /\ P => a.priority_order = b.priority_order
       /\ Q /\ a.queue_order < b.queue_order

OrderKey(a) == <<a.delivery_time, a.priority_order, a.queue_order>>

\* C3: for every (T, P, Q) and every two activities, less<T,P,Q>(a, b) is
\* true exactly when a precedes b lexicographically on the selected fields;
\* less<true,true,true> is irreflexive, asymmetric and transitive, and of two
\* activities whose triples differ exactly one precedes the other.
C3_LessIsLexicographic ==
    out.done =>
       LET lt(i, j) == out.val[<<TRUE, TRUE, TRUE>>][i][j]
       IN  /\ \A f \in Flags, i, j \in Slots :
                out.val[f][i][j] = LexLess(f[1], f[2], f[3], acts[i].a, acts[j].a)
           /\ \A i, j, k \in Slots :
                /\ ~ lt(i, i)
                /\ lt(i, j) => ~ lt(j, i)
                /\ (lt(i, j) /\ lt(j, k)) => lt(i, k)
                /\ OrderKey(acts[i].a) # OrderKey(acts[j].a) => (lt(i, j) \/ lt(j, i))

\* Three activities at the same time were compared: the first differs from
\* the second in priority_order, the second from the third only in
\* queue_order, and they are ordered first, second, third.
C3_Witness ==
    /\ out.done
    /\ acts[1].a.delivery_time = 10
    /\ acts[2].a.delivery_time = 10
    /\ acts[3].a.delivery_time = 10
    /\ acts[1].a.priority_order < acts[2].a.priority_order
    /\ acts[1].a.queue_order > acts[2].a.queue_order
    /\ acts[2].a.priority_order = acts[3].a.priority_order
    /\ acts[2].a.queue_order < acts[3].a.queue_order
    /\ out.val[<<TRUE, TRUE, TRUE>>][1][2]
    /\ out.val[<<TRUE, TRUE, TRUE>>][2][3]
    /\ out.val[<<TRUE, TRUE, TRUE>>][1][3]
    /\ ~ out.val[<<TRUE, FALSE, TRUE>>][1][2]

\* C4: of two activities with equal delivery_time, the one given the lower
\* priority precedes the other under less<true,true,true> whatever their
\* order tags and queue orders are, and with equal priority the one given the
\* lower order tag precedes whatever the queue orders are.
C4_ClassThenTag ==
    out.done =>
       \A i, j \in Slots :
          acts[i].a.delivery_time = acts[j].a.delivery_time =>
             /\ acts[i].cls < acts[j].cls => out.val[<<TRUE, TRUE, TRUE>>][i][j]
             /\ (acts[i].cls = acts[j].cls /\ acts[i].otag < acts[j].otag) =>
                   out.val[<<TRUE, TRUE, TRUE>>][i][j]

\* A(t 10, priority 50, tag 2), B(t 10, priority 50, tag 1) and
\* C(t 10, priority 40, tag 9), with queue orders against that order, were
\* compared and are ordered C, B, A.
C4_Witness ==
    /\ out.done
    /\ \A i \in Slots : acts[i].a.delivery_time = 10
    /\ acts[1].cls = EVENTPRIORITY /\ acts[1].otag = 2 /\ acts[1].a.queue_order = 0
    /\ acts[2].cls = EVENTPRIORITY /\ acts[2].otag = 1 /\ acts[2].a.queue_order = 1
    /\ acts[3].cls = CLOCKPRIORITY /\ acts[3].otag = 9 /\ acts[3].a.queue_order = 1
    /\ out.val[<<TRUE, TRUE, TRUE>>][3][2]
    /\ out.val[<<TRUE, TRUE, TRUE>>][2][1]
    /\ out.val[<<TRUE, TRUE, TRUE>>][3][1]

\* C5: send on a link in Init or Complete mode, whatever the link's kind, ends
\* in the fatal error of that mode and changes no queue, event, link or clock.
C5_SendOutsideRun ==
    [][\A l \in Links, d \in Delays, x \in EventInputs :
          (send_impl(l, d, x) /\ mode[l] \in {"INIT", "COMPLETE"}) =>
             /\ halted' = IF mode[l] = "INIT"
                          THEN SendDuringInit
                          ELSE SendDuringComplete
             /\ UNCHANGED <<linkVars, simVars, heapVars>>
      ]_vars

\* A send in Complete mode ended in the fatal error while a queue held events.
C5_Witness ==
    /\ halted = SendDuringComplete
    /\ \E q \in QueueIds : queues[q].items # <<>>

\* C6 as the specification states it: recv on a link in Init or Complete
\* mode, whatever the link's kind, does not return: it ends the process and
\* changes no queue and no event.
C6_AsStated ==
    [][\A l \in Links :
          (recv(l) /\ mode[l] \in {"INIT", "COMPLETE"}) =>
             /\ halted' # ""
             /\ UNCHANGED <<queues, events>>
      ]_vars

\* A Poll link still in Init mode has been handed an event by recv, and the
\* process goes on.
C6_Witness ==
    \E l \in Links, e \in EventIds :
        /\ halted = ""
        /\ type[l] = "POLL"
        /\ mode[l] = "INIT"
        /\ events[e].st = "recv"
        /\ getOrderTag(events[e]) = tag[pair_link[l]]

\* C7 as the specification states it: recvUntimedData on a link in Run mode
\* does not return: it ends the process and changes no queue and no event.
C7_AsStated ==
    [][\A l \in Links :
          (recvUntimedData(l) /\ mode[l] = "RUN") =>
             /\ halted' # ""
             /\ UNCHANGED <<queues, events>>
      ]_vars

\* With both links in Run mode, recvUntimedData has handed a Poll link an
\* event that was sent with send, and the process goes on.
C7_Witness ==
    \E l \in Links, e \in EventIds :
        /\ halted = ""
        /\ \A m \in Links : mode[m] = "RUN"
        /\ type[l] = "POLL"
        /\ send_queue[pair_link[l]] # NULL
        /\ queues[send_queue[pair_link[l]]].kind = "PollingLinkQueue"
        /\ events[e].st = "recvUntimedData"
        /\ events[e].cls = "NullEvent"
        /\ getOrderTag(events[e]) = tag[pair_link[l]]

\* C8: sendUntimedData on a link in Run mode ends in the fatal error of the
\* run phase, and no queue, event, link field, clock or message count changes.
C8_UntimedSendInRun ==
    [][\A l \in Links :
          (sendUntimedData(l, FRESH) /\ mode[l] = "RUN") =>
             /\ halted' = UntimedDuringRun
             /\ UNCHANGED <<linkVars, simVars, heapVars>>
      ]_vars

\* An untimed send in Run mode ended in the fatal error while the link had a
\* queue to send into.
C8_Witness ==
    /\ halted = UntimedDuringRun
    /\ \E l \in Links : mode[l] = "RUN" /\ send_queue[l] # NULL

\* C9: for links in Init or Complete mode, an event sent with
\* sendUntimedData in phase p gets delivery time p + 1 and keeps it while
\* queued; recvUntimedData on the peer hands an event out only when its
\* delivery time is <= the current phase (so never while the phase is <= p),
\* hands out the front event of the queue whenever that one is due, and an
\* event handed out is in no queue and is never handed out again.
C9_UntimedNextPhase ==
    [][/\ \A l \in Links :
            (sendUntimedData(l, FRESH) /\ mode[l] # "RUN" /\ halted' = "") =>
               \E e \in EventIds :
                  /\ Created(e)
                  /\ events'[e].delivery_time = untimed_phase + 1
                  /\ In(queues'[send_queue'[l]].items, e)
       /\ \A l \in Links :
            (recvUntimedData(l) /\ halted' = "" /\ send_queue[pair_link[l]] # NULL) =>
               LET q == send_queue[pair_link[l]]
                   items == queues[q].items
               IN  IF items # <<>> /\ events[Head(items)].delivery_time <= untimed_phase
                   THEN /\ events' = [events EXCEPT ![Head(items)].st = "recvUntimedData"]
                        /\ queues' = [queues EXCEPT ![q].items = Tail(items)]
                   ELSE UNCHANGED <<queues, events>>
       /\ \A e \in EventIds :
            /\ (events[e].st # "recvUntimedData" /\ events'[e].st = "recvUntimedData") =>
                  events[e].delivery_time <= untimed_phase
            /\ events[e].st = "queued" => events'[e].delivery_time = events[e].delivery_time
            /\ events'[e].st = "recvUntimedData" =>
                  \A q \in QueueIds : ~ In(queues'[q].items, e)
            /\ events[e].st = "recvUntimedData" => events'[e] = events[e]
       /\ untimed_phase' >= untimed_phase
      ]_vars

\* An event sent in phase 0 was handed out by recvUntimedData in phase 1, with
\* no link in Run mode.
C9_Witness ==
    \E e \in EventIds :
        /\ halted = ""
        /\ \A l \in Links : mode[l] # "RUN"
        /\ events[e].st = "recvUntimedData"
        /\ events[e].delivery_time = 1
        /\ untimed_phase = 1

\* C10: when prepareForComplete on a link L that is not a Sync link returns,
\* the peer's send_queue is null; and if L is a Poll link whose peer referred
\* to a polling queue, that queue had not been destroyed before and has been
\* destroyed once by the call.
C10_PrepareReleases ==
    [][\A l \in Links :
          (prepareForComplete(l) /\ type[l] # "SYNC") =>
             LET q == send_queue[pair_link[l]]
             IN  /\ halted' = "" => send_queue'[pair_link[l]] = NULL
                 /\ (type[l] = "POLL" /\ q # NULL /\ queues[q].kind = "PollingLinkQueue") =>
                       /\ queues[q].deleted = 0
                       /\ queues'[q].deleted = 1
                       /\ halted' = ""
                 /\ \A r \in QueueIds :
                       queues'[r].kind = "PollingLinkQueue" => queues'[r].deleted <= 1
      ]_vars

\* A Poll link that went through Run has been prepared for Complete: its
\* polling queue is destroyed once and the peer's send_queue is null.
C10_Witness ==
    \E l \in Links, q \in QueueIds :
        /\ halted = ""
        /\ type[l] = "POLL"
        /\ mode[l] = "COMPLETE"
        /\ send_queue[pair_link[l]] = NULL
        /\ queues[q].kind = "PollingLinkQueue"
        /\ queues[q].deleted = 1

\* C11 as the specification states it: a link whose mode is Run has kind
\* Handler, Poll or Sync, never Uninitialized.
C11_AsStated ==
    \A l \in Links : mode[l] = "RUN" => type[l] \in {"HANDLER", "POLL", "SYNC"}

\* A link that was never given a kind is in Run mode, and has been sent on.
C11_Witness ==
    \E l \in Links, e \in EventIds :
        /\ halted = ""
        /\ mode[l] = "RUN"
        /\ type[l] = "UNINITIALIZED"
        /\ events[e].st = "queued"
        /\ getOrderTag(events[e]) = tag[l]
        /\ send_queue[l] = TimeVortexId

\* C12: send(d, null) on a link in Run mode with latency l at time t0
\* allocates one NullEvent and enqueues it with delivery time t0 + d + l (the
\* sum taken in Cycle_t); executing that NullEvent calls the handler held in
\* its delivery_info once, with a null event, and frees the NullEvent once; it
\* is never called or freed a second time.
C12_NullEvent ==
    [][/\ \A l \in Links, d \in Delays :
            (send_impl(l, d, NULLEVENT) /\ mode[l] = "RUN" /\ halted' = "") =>
               \E e \in EventIds :
                  /\ Created(e)
                  /\ events'[e].cls = "NullEvent"
                  /\ events'[e].delivery_time = (current_time + d + latency[l]) % Word
                  /\ In(queues'[send_queue[l]].items, e)
                  /\ \A f \in EventIds \ {e} : events'[f] = events[f]
       /\ \A e \in EventIds :
            (/\ Execute
             /\ halted' = ""
             /\ queues[TimeVortexId].items # <<>>
             /\ Head(queues[TimeVortexId].items) = e
             /\ events[e].cls = "NullEvent") =>
               /\ exec' = [exec EXCEPT ![e] =
                             [handler |-> events[e].delivery_info, arg |-> "nullptr",
                              calls |-> 1, freed |-> 1]]
               /\ events[e].delivery_info # 0
               /\ \A q \in QueueIds : ~ In(queues'[q].items, e)
       /\ \A e \in EventIds :
            /\ exec'[e].calls <= 1
            /\ exec'[e].freed <= 1
            /\ exec[e].calls = 1 => exec'[e] = exec[e]
      ]_vars

\* A NullEvent made by a send at time 0 was executed at its delivery time 1:
\* the peer's handler was called once with a null event, the NullEvent freed.
C12_Witness ==
    \E l \in Links, e \in EventIds :
        /\ halted = ""
        /\ events[e].cls = "NullEvent"
        /\ events[e].st = "freed"
        /\ events[e].delivery_time = 1
        /\ getOrderTag(events[e]) = tag[l]
        /\ delivery_info[l] \in FunctorsOf(pair_link[l])
        /\ exec[e] = [handler |-> delivery_info[l], arg |-> "nullptr",
                      calls |-> 1, freed |-> 1]

\* C13: for distinct paired links L and L', L.addSendLatency(n, unit) adds n
\* times the unit's cycle factor to L.latency (in Cycle_t) and leaves
\* L'.latency alone; L.addRecvLatency(n, unit) adds it to L'.latency and
\* leaves L.latency alone; and a send on L adds L.latency only.
C13_LatencySplit ==
    [][/\ \A l \in Links, n \in CycleInputs, tb \in Timebases :
            /\ addSendLatency(l, n, tb) =>
                  /\ latency'[l] = (latency[l] + (n * tb) + Word) % Word
                  /\ \A m \in Links \ {l} : latency'[m] = latency[m]
            /\ (addRecvLatency(l, n, tb) /\ pair_link[l] # l) =>
                  /\ latency'[pair_link[l]] =
                        (latency[pair_link[l]] + (n * tb) + Word) % Word
                  /\ \A m \in Links \ {pair_link[l]} : latency'[m] = latency[m]
       /\ \A l \in Links, d \in Delays, x \in EventInputs :
            (send_impl(l, d, x) /\ mode[l] = "RUN" /\ halted' = "") =>
               /\ latency' = latency
               /\ \E e \in EventIds :
                     /\ Created(e)
                     /\ events'[e].delivery_time =
                           (current_time + d + latency[l]) % Word
      ]_vars

\* With 3 cycles of send latency added to L (latency 4) and 6 cycles of
\* receive latency charged to its peer (latency 7), an event L sent at time 0
\* with delay 0 is due at 4.
C13_Witness ==
    \E l \in Links, e \in EventIds :
        /\ halted = ""
        /\ latCalls = 2
        /\ latency[l] = 4
        /\ latency[pair_link[l]] = 7
        /\ events[e].st = "queued"
        /\ getOrderTag(events[e]) = tag[l]
        /\ events[e].delivery_time = 4

\* C14: a call of finalizeConfiguration or prepareForComplete on a paired link
\* returns, whatever the kinds of the link and its peer and also when the link
\* is its own peer or both ends are Sync: the chain of calls it makes has at
\* most two entries, each the link or its peer, the call does not run out of
\* stack, and only the mode of a visited link changes.
C14_Terminates ==
    [][\A l \in Links :
          /\ (finalizeConfiguration(l) /\ pair_link[l] # NULL) =>
                LET v == finalizeVisits(l, MaxCallDepth)
                IN  /\ Len(v) <= 2
                    /\ \A i \in DOMAIN v : v[i] \in {l, pair_link[l]}
                    /\ halted' = ""
                    /\ \A m \in Links : mode'[m] # mode[m] => Visited(v, m)
          /\ (prepareForComplete(l) /\ pair_link[l] # NULL) =>
                LET v == prepareVisits(l, MaxCallDepth)
                IN  /\ Len(v) <= 2
                    /\ \A i \in DOMAIN v : v[i] \in {l, pair_link[l]}
                    /\ halted' = ""
                    /\ \A m \in Links : mode'[m] # mode[m] => Visited(v, m)
      ]_vars

\* Both calls have returned on a Handler link that is its own peer.
C14_Witness ==
    /\ halted = ""
    /\ modeCalls = 2
    /\ \E l \in Links : pair_link[l] = l /\ type[l] = "HANDLER" /\ mode[l] = "COMPLETE"

\* C15: deleting a live link runs the destructor of each link object at most
\* once.  A distinct Sync peer is destroyed with the link, exactly once, and the
\* link is not destroyed again by it; a distinct peer of another kind is not
\* destroyed and its pair_link becomes null; a link that is its own peer is
\* destroyed once and nothing else changes.
C15_DestroyedOnce ==
    [][\A l \in Links : deleteLink(l) =>
          LET p == pair_link[l]
          IN  /\ halted' = ""
              /\ \A m \in Links : destroyed'[m] <= 1
              /\ destroyed'[l] = 1
              /\ (p # NULL /\ p # l /\ type[p] = "SYNC") =>
                    destroyed[p] = 0 /\ destroyed'[p] = 1
              /\ (p # NULL /\ p # l /\ type[p] # "SYNC") =>
                    destroyed'[p] = destroyed[p] /\ pair_link'[p] = NULL
              /\ p = l => /\ pair_link' = pair_link
                          /\ \A m \in Links \ {l} : destroyed'[m] = destroyed[m]
      ]_vars

\* A link was deleted whose peer was a Sync link: both objects are destroyed,
\* each once, and only the peer's pair_link was cleared.
C15_Witness ==
    /\ halted = ""
    /\ \E l \in Links :
          LET p == pair_link[l]
          IN  /\ p # NULL /\ p # l /\ type[p] = "SYNC" /\ pair_link[p] = NULL
              /\ destroyed[l] = 1 /\ destroyed[p] = 1

\* C16: recv on a link whose kind is not Poll ends in the fatal error of
\* Link::recv: no event is handed out and no queue loses an event.
C16_RecvNeedsPoll ==
    [][\A l \in Links :
          (recv(l) /\ type[l] # "POLL") =>
             /\ halted' = RecvOnHandlerLink
             /\ UNCHANGED <<queues, events>>
      ]_vars

\* recv on a Handler link ended in the fatal error while the queue its peer
\* sends into held an event.
C16_Witness ==
    /\ halted = RecvOnHandlerLink
    /\ \E l \in Links :
          /\ type[l] = "HANDLER"
          /\ pair_link[l] # NULL
          /\ send_queue[pair_link[l]] # NULL
          /\ queues[send_queue[pair_link[l]]].items # <<>>

\* C17: setFunctor and replaceFunctor on a Poll link end in their fatal error
\* and change nothing: the link stays Poll, no link's delivery_info changes
\* and no handler object is deleted.
C17_NoFunctorOnPoll ==
    [][\A l \in Links, f \in FunctorIds :
          /\ (setFunctor(l, f) /\ type[l] = "POLL") =>
                /\ halted' = SetFunctorOnPollingLink
                /\ UNCHANGED <<linkVars, functors>>
          /\ (replaceFunctor(l, f) /\ type[l] = "POLL") =>
                /\ halted' = ReplaceFunctorOnPollingLink
                /\ UNCHANGED <<linkVars, functors>>
      ]_vars

\* replaceFunctor was called on a Poll link and ended in the fatal error.
C17_Witness ==
    /\ halted = ReplaceFunctorOnPollingLink
    /\ \E l \in Links : type[l] = "POLL"
    /\ \A f \in FunctorIds : functors[f] = "live"

\* C18 as the specification states it: in every interleaving of the threads'
\* calls, no id is returned by generateUniqueId that an earlier call on the
\* rank returned.
C18_AsStated == ~ repeated

\* More calls than id_counter has values have been made, and a call has
\* returned an id that was returned before.
C18_Witness ==
    /\ repeated
    /\ idCalls > IdWord
    /\ <<0, Rank>> \in issued

\* Before id_counter has gone through all its values, the ids returned in any
\* interleaving are distinct.
IdsDistinctBeforeWrap ==
    idCalls <= IdWord =>
        /\ ~ repeated
        /\ (\A t \in Threads : fetched[t] = NoFetch) => Cardinality(issued) = idCalls

\* C19 as the specification states it: for every value of setPriority's
\* parameter, getPriority returns that value after setPriority and the order
\* tag is as before; getOrderTag returns the tag after setOrderTag and the
\* priority is as before.
C19_AsStated ==
    [][\A i \in Slots :
          /\ \A priority \in PriorityValues :
                ApplySetPriority(i, priority) =>
                   /\ getPriority(acts'[i].a) = priority
                   /\ getOrderTag(acts'[i].a) = getOrderTag(acts[i].a)
          /\ \A t \in TagInputs :
                ApplySetOrderTag(i, t) =>
                   /\ getOrderTag(acts'[i].a) = t
                   /\ getPriority(acts'[i].a) = getPriority(acts[i].a)
      ]_vars

\* setPriority was called with the first value that does not fit an int, and
\* getPriority returns a negative number.
C19_Witness ==
    \E i \in Slots :
        /\ acts[i].cls = Half \div 2
        /\ getPriority(acts[i].a) < 0

\* C20 as the specification states it: a link's mode changes only from Init
\* to Run, in a finalizeConfiguration call, and from Run to Complete, in a
\* prepareForComplete call.
C20_AsStated ==
    [][\A l \in Links :
          mode'[l] # mode[l] =>
             \/ /\ mode[l] = "INIT" /\ mode'[l] = "RUN"
                /\ \E m \in Links : finalizeConfiguration(m)
             \/ /\ mode[l] = "RUN" /\ mode'[l] = "COMPLETE"
                /\ \E m \in Links : prepareForComplete(m)
      ]_vars

\* After a single call, prepareForComplete, a link is in Complete mode: it
\* went there from Init.
C20_Witness ==
    /\ halted = ""
    /\ modeCalls = 1
    /\ \E l \in Links : mode[l] = "COMPLETE"

\* C21: after finalizeConfiguration on link l with peer p, l is in Run mode
\* and: if l is Handler, p sends into the TimeVortex; if l is Poll, p sends
\* into a PollingLinkQueue that did not exist before and that no other link
\* sends into; if l is Sync, no send_queue has changed; a Sync peer of a
\* non-Sync link is in Run mode too, and a non-Sync peer keeps its mode.
C21_FinalizeWires ==
    [][\A l \in Links :
          finalizeConfiguration(l) =>
             LET p == pair_link[l]
                 q == send_queue'[p]
             IN  /\ halted' = ""
                 /\ mode'[l] = "RUN"
                 /\ type[l] = "HANDLER" => q = TimeVortexId /\ queues'[q].kind = "TimeVortex"
                 /\ type[l] = "POLL" =>
                       /\ q # NULL
                       /\ queues[q].kind = "none"
                       /\ queues'[q] = [NoQueue EXCEPT !.kind = "PollingLinkQueue"]
                       /\ \A m \in Links \ {p} : send_queue'[m] # q
                 /\ type[l] = "SYNC" => UNCHANGED send_queue
                 /\ (type[l] # "SYNC" /\ type[p] = "SYNC") => mode'[p] = "RUN"
                 /\ (type[l] # "SYNC" /\ type[p] # "SYNC" /\ p # l) => mode'[p] = mode[p]
      ]_vars

\* A Poll link was finalized while its peer was still in Init mode: the peer
\* sends into a PollingLinkQueue of its own and is still in Init mode.
C21_Witness ==
    /\ halted = ""
    /\ \E l \in Links :
          LET p == pair_link[l]
          IN  /\ type[l] = "POLL" /\ mode[l] = "RUN"
              /\ p # l /\ type[p] # "SYNC" /\ mode[p] = "INIT"
              /\ send_queue[p] # NULL
              /\ queues[send_queue[p]].kind = "PollingLinkQueue"

\* C22 as the specification states it: when finalizeConfiguration runs on a
\* link that is not Sync and the peer's send_queue is an InitQueue, the call
\* deletes that InitQueue, once, and afterwards the peer's send_queue does not
\* refer to it.
C22_AsStated ==
    [][\A l \in Links :
          LET p == pair_link[l]
              q == send_queue[p]
          IN  (/\ finalizeConfiguration(l)
               /\ type[l] # "SYNC"
               /\ q # NULL
               /\ queues[q].kind = "InitQueue"
               /\ queues[q].deleted = 0) =>
                 /\ queues'[q].deleted = 1
                 /\ send_queue'[p] # q
      ]_vars

\* A link of no kind is in Run mode, its peer still sends into an InitQueue
\* that holds an event, and the InitQueue was not deleted.
C22_Witness ==
    /\ halted = ""
    /\ \E l \in Links :
          LET p == pair_link[l]
              q == send_queue[p]
          IN  /\ type[l] = "UNINITIALIZED" /\ mode[l] = "RUN"
              /\ q # NULL
              /\ queues[q].kind = "InitQueue"
              /\ queues[q].deleted = 0
              /\ queues[q].items # <<>>

\* A Handler link is in Run mode and an InitQueue that was never deleted is
\* referred to by no link.
C22_Leak ==
    /\ halted = ""
    /\ \E l \in Links, q \in QueueIds :
          /\ type[l] = "HANDLER" /\ mode[l] = "RUN"
          /\ queues[q].kind = "InitQueue" /\ queues[q].deleted = 0
          /\ \A m \in Links : send_queue[m] # q

\* C23 as the specification states it: no call turns a Handler link into a
\* Poll link or a Poll link into a Handler link, and while the process runs
\* no Poll link has a peer whose delivery_info holds a handler.
C23_AsStated ==
    [][\A l \in Links :
          /\ ~ (type[l] = "HANDLER" /\ type'[l] = "POLL")
          /\ ~ (type[l] = "POLL" /\ type'[l] = "HANDLER")
          /\ (halted' = "" /\ type'[l] = "POLL" /\ pair_link'[l] # NULL) =>
                delivery_info'[pair_link'[l]] = 0
      ]_vars

\* A link is of kind Poll, its peer's delivery_info still holds the handler
\* that setFunctor installed, and the process runs.
C23_Witness ==
    /\ halted = ""
    /\ \E l \in Links :
          /\ type[l] = "POLL"
          /\ delivery_info[pair_link[l]] \in FunctorsOf(l)
          /\ functors[delivery_info[pair_link[l]]] = "live"

\* C24: when the peer of link l has installed a handler h (it is then held in
\* l's delivery_info), an event sent on l in Run mode carries delivery_info h,
\* a handler of the peer's component and not of l's own, the order tag tag[l]
\* and the priority class of an event; executing an event calls the handler
\* in its delivery_info, once, with the event itself.
C24_DeliveryInfo ==
    [][/\ \A l \in Links, d \in Delays :
            (/\ send_impl(l, d, FRESH)
             /\ mode[l] = "RUN"
             /\ halted' = ""
             /\ delivery_info[l] # 0) =>
               \E e \in EventIds :
                  /\ Created(e)
                  /\ events'[e].cls = "Event"
                  /\ events'[e].delivery_info = delivery_info[l]
                  /\ delivery_info[l] \in FunctorsOf(pair_link[l])
                  /\ delivery_info[l] \notin FunctorsOf(l)
                  /\ getOrderTag(events'[e]) = tag[l]
                  /\ getPriority(events'[e]) = EVENTPRIORITY
       /\ \A e \in EventIds, l \in Links :
            (/\ Execute
             /\ halted' = ""
             /\ queues[TimeVortexId].items # <<>>
             /\ Head(queues[TimeVortexId].items) = e
             /\ events[e].cls = "Event"
             /\ getOrderTag(events[e]) = tag[l]) =>
               /\ exec' = [exec EXCEPT ![e] =
                             [handler |-> events[e].delivery_info, arg |-> "this",
                              calls |-> 1, freed |-> 0]]
               /\ events[e].delivery_info \in FunctorsOf(pair_link[l])
      ]_vars

\* Both links have installed a handler; an event sent on l was executed and
\* the handler called with it, once, is the one the peer of l installed.
C24_Witness ==
    \E l \in Links, e \in EventIds :
        /\ halted = ""
        /\ delivery_info[pair_link[l]] \in FunctorsOf(l)
        /\ events[e].cls = "Event"
        /\ events[e].st = "handler"
        /\ getOrderTag(events[e]) = tag[l]
        /\ exec[e].handler \in FunctorsOf(pair_link[l])
        /\ exec[e].arg = "this"
        /\ exec[e].calls = 1

\* C25: a sendUntimedData call that completes raises untimed_msg_count by
\* one; recvUntimedData, sendUntimedData_sync, send, recv,
\* finalizeConfiguration and prepareForComplete leave it as it is; so in a
\* step that is not the reset at the phase boundary, the counter is zero
\* afterwards exactly if it was zero and no sendUntimedData call completed.
C25_MsgCount ==
    [][/\ \A l \in Links :
            (sendUntimedData(l, FRESH) /\ halted' = "") =>
               untimed_msg_count' = untimed_msg_count + 1
       /\ \A l \in Links :
            (\/ recvUntimedData(l)
             \/ sendUntimedData_sync(l, FRESH)
             \/ \E d \in Delays, e \in EventInputs : send_impl(l, d, e)
             \/ recv(l)
             \/ finalizeConfiguration(l)
             \/ prepareForComplete(l)) =>
               untimed_msg_count' = untimed_msg_count
       /\ ~ AdvancePhase =>
            ((untimed_msg_count' = 0) <=>
               /\ untimed_msg_count = 0
               /\ ~ \E l \in Links : sendUntimedData(l, FRESH) /\ halted' = "")
      ]_vars

\* In the first phase, with both links in Init mode, one queue holds two
\* events, one sent with sendUntimedData and one handed over with
\* sendUntimedData_sync, and the counter is one.
C25_Witness ==
    /\ halted = ""
    /\ untimed_phase = 0
    /\ untimed_msg_count = 1
    /\ \A l \in Links : mode[l] = "INIT"
    /\ \E q \in QueueIds : queues[q].kind = "InitQueue" /\ Len(queues[q].items) = 2

\* C26 as the specification states it: the handler that the execution of an
\* event calls has not been deleted.
C26_AsStated ==
    [][(Execute /\ front(TimeVortexId) \in EventIds
                /\ events[front(TimeVortexId)].delivery_info # NULL) =>
          functors[events[front(TimeVortexId)].delivery_info] = "live"
      ]_vars

\* The process died in the execution of an event whose handler replaceFunctor
\* had deleted: every event object is in use and names a handler, so neither
\* a send nor a null handler ended the process.
C26_Witness ==
    /\ halted = "crash"
    /\ \A e \in EventIds : events[e].cls # "none" /\ events[e].delivery_info # NULL
    /\ \E e \in EventIds :
          /\ exec[e].calls = 1
          /\ functors[exec[e].handler] = "deleted"

\* C27 as the specification states it: on a pair of links neither of which
\* is Sync, whenever a send on link l passes the mode check, send_queue of l
\* is not null and is the TimeVortex or a PollingLinkQueue that was not
\* deleted.
C27_AsStated ==
    [][\A l \in Links, d \in Delays, e \in EventInputs :
          (/\ send_impl(l, d, e)
           /\ mode[l] = "RUN"
           /\ type[l] # "SYNC"
           /\ type[pair_link[l]] # "SYNC") =>
             /\ send_queue[l] # NULL
             /\ queues[send_queue[l]].kind \in {"TimeVortex", "PollingLinkQueue"}
             /\ queues[send_queue[l]].deleted = 0
      ]_vars

\* After a single finalizeConfiguration, on a pair without a Poll or Sync
\* link, a link is in Run mode with a null send_queue while its peer is in
\* Init mode, and the process died: a send on the link dereferenced null.
C27_Witness ==
    /\ halted = "crash"
    /\ modeCalls = 1
    /\ \A l \in Links : type[l] \in {"UNINITIALIZED", "HANDLER"}
    /\ \E l \in Links :
          /\ mode[l] = "RUN"
          /\ send_queue[l] = NULL
          /\ mode[pair_link[l]] = "INIT"

\* A send in Run mode has put its NullEvent into an InitQueue.
C27_IntoInitQueue ==
    /\ halted = ""
    /\ \E l \in Links, e \in EventIds :
          /\ mode[l] = "RUN"
          /\ send_queue[l] # NULL
          /\ queues[send_queue[l]].kind = "InitQueue"
          /\ In(queues[send_queue[l]].items, e)
          /\ events[e].cls = "NullEvent"

\* C28 as the specification states it: the event that a send in Run mode
\* puts into a queue has a delivery time that is not below the simulated time
\* of the call, whatever the time, the delay and the latency are, the sum
\* being taken in Cycle_t.
C28_AsStated ==
    [][\A l \in Links, d \in Delays, x \in EventInputs :
          (send_impl(l, d, x) /\ mode[l] = "RUN" /\ halted' = "") =>
             \A e \in EventIds :
                Created(e) => events'[e].delivery_time >= current_time
      ]_vars

\* At time 1 a send on a link in Run mode with the largest latency gave its
\* event a delivery time that wrapped around to below 1, and the queue
\* reported the scheduling violation.
C28_Witness ==
    /\ halted = "Scheduling violation"
    /\ current_time = 1
    /\ \E l \in Links : mode[l] = "RUN" /\ latency[l] = Word - 1 /\ send_queue[l] # NULL

====
